---- MODULE Spec2Model ----
(***************************************************************************)
(* Model of the peer-review subsystem of Course Builder                    *)
(* (coursebuilder/models/review.py, class ReviewsProcessor).               *)
(*                                                                         *)
(* Strings that the code builds and parses (the datastore key              *)
(* "student:unit") are sequences of one-character strings, so that         *)
(* ':'.join, key.find(':') and the slices are computed as the code         *)
(* computes them.  The JSON document held in StudentWorkEntity.data is     *)
(* kept as the structured value it encodes: a record with the fields       *)
(* submission and reviewers, reviewers being a function from reviewer      *)
(* names to entries [review, is_draft, date_added].                        *)
(***************************************************************************)
EXTENDS Naturals, Integers, Sequences, FiniteSets, TLC

(***************************************************************************)
(* Bounds and input sets.                                                  *)
(***************************************************************************)
\* The largest clock reading (seconds since the epoch, shifted).
MaxTime == 1
\* The number of successful datastore writes a behaviour of Spec performs.
MaxPuts == 3
\* The number of successful writes a behaviour of SpecAssign performs.
MaxAssignPuts == 4
\* The successful writes of a longer run.
MaxLongPuts == 6
\* The longest list of reviews given to get_review_progress.
MaxReviews == 3
\* The largest review_min_count given to get_review_progress.
MaxMinCount == 2
\* The successful writes of an assignment run with reviewers who submit
\* no work.
MaxSpreadPuts == 4

\* Student.key().name() of the users; none contains a colon.
Names == {<<"a">>, <<"b">>, <<"c">>}
\* unit.unit_id of the assessments.
UnitIds == {1, 2}
\* Answer lists handed to submit_student_work.
Answers == {<<"x">>, <<"y">>}
\* The answer list of the students of the assignment runs.
AssignAnswers == {<<"x">>}
\* The requests of a concurrent run.
ReqIds == {1, 2, 3}
\* Python's None as a review, and the review_data values of submit_review.
NoReview == "None"
ReviewData == {NoReview, "good"}
\* Python's None where a student key or a work dict is expected.
NoStudent == <<>>
NoWork == [none |-> TRUE]
\* An empty dict.
EmptyDict == <<>>

\* A function that can be bound to users.get_current_user: the one of the
\* users module (of request 0), or the get_placeholder_user that the
\* delegate_to call of a request has defined.
Accessor(fn, request) == [fn |-> fn, request |-> request]
OriginalAccessor == Accessor("get_current_user", 0)
\* The email of the user get_placeholder_user returns.
USER_EMAIL_PLACE_HOLDER == "{{ email }}"
\* The users whose requests are served, and None for a request of nobody
\* logged in.
NoUser == "None"
Emails == {"s@x", "t@x"}

VARIABLES
    store,   \* StudentWorkEntity: key_string -> the work dict in .data
    now,     \* the UTC clock read by add_reviewer
    nputs,   \* number of put() calls made so far (bounds the behaviours)
    call,    \* the call being answered: its arguments, outcome and result
    reqs,    \* the requests served concurrently: each one's place and locals
    get_current_user  \* the function bound to users.get_current_user

vars == <<store, now, nputs, call, reqs, get_current_user>>

(***************************************************************************)
(* Strings.                                                                *)
(***************************************************************************)
Digits == <<"0", "1", "2", "3", "4", "5", "6", "7", "8", "9">>

\* str(n) for a natural number n.
RECURSIVE Str(_)
Str(n) == IF n < 10 THEN <<Digits[n + 1]>>
          ELSE Str(n \div 10) \o <<Digits[(n % 10) + 1]>>

\* s.find(ch): the 0-based index of the first ch in s, or -1.
Find(s, ch) ==
    IF \E i \in 1..Len(s) : s[i] = ch
    THEN (CHOOSE i \in 1..Len(s) : s[i] = ch /\ \A j \in 1..(i - 1) : s[j] # ch) - 1
    ELSE -1

\* s[:i] and s[i:] of Python, for i >= -1 .
SliceTo(s, i) == IF i >= 0 THEN SubSeq(s, 1, i) ELSE SubSeq(s, 1, Len(s) + i)
SliceFrom(s, i) == SubSeq(s, i + 1, Len(s))

\* ':'.join([student.key().name(), str(unit.unit_id)])
KeyString(student, unit_id) == student \o <<":">> \o Str(unit_id)

\* student_key = key[:key.find(':')]
StudentKeyOf(key) == SliceTo(key, Find(key, ":"))
\* unit_id = key[key.find(':') + 1:]
UnitIdOf(key) == SliceFrom(key, Find(key, ":") + 1)

(***************************************************************************)
(* The datastore.                                                          *)
(***************************************************************************)
\* _get_student_work: the stored work dict, or None.
GetStudentWork(st, student, unit_id) ==
    LET key == KeyString(student, unit_id)
    IN  IF key \in DOMAIN st THEN st[key] ELSE NoWork

\* _put_student_work: creates or overwrites the entity of the key.
PutStudentWork(st, student, unit_id, work) ==
    LET key == KeyString(student, unit_id)
    IN  [k \in DOMAIN st \cup {key} |-> IF k = key THEN work ELSE st[k]]

\* The orders in which StudentWorkEntity.all() may yield the entities.
RECURSIVE Orders(_)
Orders(S) ==
    IF S = {} THEN {<<>>}
    ELSE UNION {{<<k>> \o o : o \in Orders(S \ {k})} : k \in S}

ScanOrders(st) == Orders(DOMAIN st)

(***************************************************************************)
(* ReviewsProcessor: the computations of the handlers.                     *)
(***************************************************************************)
\* min_reviewers_so_far = 99999
MinReviewersInit == 99999

\* A count of the reviewers whose review is final only.
NumFinalReviewers(work) ==
    Cardinality({r \in DOMAIN work.reviewers : ~ work.reviewers[r].is_draft})

\* len(work['reviewers'])
NumReviewers(work) == Cardinality(DOMAIN work.reviewers)

\* A scan that lacks the test of line 285 (the reviewer's own work).
RECURSIVE ScanWithoutOwnWorkTest(_, _, _, _, _, _, _)
ScanWithoutOwnWorkTest(order, st, reviewer, unit_id, i, chosen, min) ==
    IF i > Len(order) THEN chosen
    ELSE LET key == order[i]
             work == st[key]
             student_key == StudentKeyOf(key)
         IN  IF UnitIdOf(key) # Str(unit_id) \/ reviewer \in DOMAIN work.reviewers
             THEN ScanWithoutOwnWorkTest(order, st, reviewer, unit_id, i + 1, chosen, min)
             ELSE IF NumReviewers(work) < min
             THEN ScanWithoutOwnWorkTest(order, st, reviewer, unit_id, i + 1,
                                         student_key, NumReviewers(work))
             ELSE ScanWithoutOwnWorkTest(order, st, reviewer, unit_id, i + 1, chosen, min)

\* A scan that forgets to lower min_reviewers_so_far (line 291).
RECURSIVE ScanWithoutMinUpdate(_, _, _, _, _, _, _)
ScanWithoutMinUpdate(order, st, reviewer, unit_id, i, chosen, min) ==
    IF i > Len(order) THEN chosen
    ELSE LET key == order[i]
             work == st[key]
             student_key == StudentKeyOf(key)
         IN  IF \/ UnitIdOf(key) # Str(unit_id)
                \/ reviewer \in DOMAIN work.reviewers
                \/ student_key = reviewer
             THEN ScanWithoutMinUpdate(order, st, reviewer, unit_id, i + 1, chosen, min)
             ELSE IF NumReviewers(work) < min
             THEN ScanWithoutMinUpdate(order, st, reviewer, unit_id, i + 1,
                                       student_key, min)
             ELSE ScanWithoutMinUpdate(order, st, reviewer, unit_id, i + 1, chosen, min)

\* A scan that lacks the test of line 282 (the reviewer already has an entry).
RECURSIVE ScanWithoutReviewerTest(_, _, _, _, _, _, _)
ScanWithoutReviewerTest(order, st, reviewer, unit_id, i, chosen, min) ==
    IF i > Len(order) THEN chosen
    ELSE LET key == order[i]
             work == st[key]
             student_key == StudentKeyOf(key)
         IN  IF UnitIdOf(key) # Str(unit_id) \/ student_key = reviewer
             THEN ScanWithoutReviewerTest(order, st, reviewer, unit_id, i + 1, chosen, min)
             ELSE IF NumReviewers(work) < min
             THEN ScanWithoutReviewerTest(order, st, reviewer, unit_id, i + 1,
                                          student_key, NumReviewers(work))
             ELSE ScanWithoutReviewerTest(order, st, reviewer, unit_id, i + 1, chosen, min)

\* A scan that lacks the test of line 280 (the unit of the entity).
RECURSIVE ScanWithoutUnitTest(_, _, _, _, _, _, _)
ScanWithoutUnitTest(order, st, reviewer, unit_id, i, chosen, min) ==
    IF i > Len(order) THEN chosen
    ELSE LET key == order[i]
             work == st[key]
             student_key == StudentKeyOf(key)
         IN  IF reviewer \in DOMAIN work.reviewers \/ student_key = reviewer
             THEN ScanWithoutUnitTest(order, st, reviewer, unit_id, i + 1, chosen, min)
             ELSE IF NumReviewers(work) < min
             THEN ScanWithoutUnitTest(order, st, reviewer, unit_id, i + 1,
                                      student_key, NumReviewers(work))
             ELSE ScanWithoutUnitTest(order, st, reviewer, unit_id, i + 1, chosen, min)

\* The loop of get_new_submission_for_review over the entities order[i..],
\* entered with chosen_student_key = chosen and min_reviewers_so_far = min.
RECURSIVE ScanNewSubmission(_, _, _, _, _, _, _)
ScanNewSubmission(order, st, reviewer, unit_id, i, chosen, min) ==
    IF i > Len(order) THEN chosen
    ELSE LET key == order[i]
             work == st[key]
             student_key == StudentKeyOf(key)
         IN  IF UnitIdOf(key) # Str(unit_id)
             THEN ScanNewSubmission(order, st, reviewer, unit_id, i + 1, chosen, min)
             ELSE IF reviewer \in DOMAIN work.reviewers
             THEN ScanNewSubmission(order, st, reviewer, unit_id, i + 1, chosen, min)
             ELSE IF student_key = reviewer
             THEN ScanNewSubmission(order, st, reviewer, unit_id, i + 1, chosen, min)
             ELSE IF NumReviewers(work) < min
             THEN ScanNewSubmission(order, st, reviewer, unit_id, i + 1,
                                    student_key, NumReviewers(work))
             ELSE ScanNewSubmission(order, st, reviewer, unit_id, i + 1, chosen, min)

\* get_new_submission_for_review, the entities being scanned in this order.
GetNewSubmissionForReview(order, st, reviewer, unit_id) ==
    ScanNewSubmission(order, st, reviewer, unit_id, 1, NoStudent, MinReviewersInit)

\* The dict get_reviewer_reviews appends for the entity of this key.
ReviewView(st, key, reviewer) ==
    [student    |-> StudentKeyOf(key),
     submission |-> st[key].submission,
     review     |-> st[key].reviewers[reviewer].review,
     is_draft   |-> st[key].reviewers[reviewer].is_draft,
     date_added |-> st[key].reviewers[reviewer].date_added]

\* A loop of get_reviewer_reviews without the test of line 326: it takes the
\* records of every unit.
RECURSIVE CollectWithoutUnitTest(_, _, _, _, _)
CollectWithoutUnitTest(order, st, reviewer, unit_id, i) ==
    IF i > Len(order) THEN <<>>
    ELSE LET key == order[i]
             rest == CollectWithoutUnitTest(order, st, reviewer, unit_id, i + 1)
         IN  IF reviewer \in DOMAIN st[key].reviewers
             THEN <<ReviewView(st, key, reviewer)>> \o rest
             ELSE rest

\* The loop of get_reviewer_reviews over the entities order[i..].
RECURSIVE CollectReviews(_, _, _, _, _)
CollectReviews(order, st, reviewer, unit_id, i) ==
    IF i > Len(order) THEN <<>>
    ELSE LET key == order[i]
             rest == CollectReviews(order, st, reviewer, unit_id, i + 1)
         IN  IF UnitIdOf(key) # Str(unit_id) THEN rest
             ELSE IF reviewer \in DOMAIN st[key].reviewers
             THEN <<ReviewView(st, key, reviewer)>> \o rest
             ELSE rest

\* A sort that puts the latest date_added first (reverse=True).
RECURSIVE InsertByDateDescending(_, _)
InsertByDateDescending(sorted, r) ==
    IF sorted = <<>> THEN <<r>>
    ELSE IF sorted[Len(sorted)].date_added >= r.date_added
    THEN Append(sorted, r)
    ELSE Append(InsertByDateDescending(SubSeq(sorted, 1, Len(sorted) - 1), r),
                sorted[Len(sorted)])

\* sorted(reviews, key=lambda r: r['date_added']): a stable sort.
RECURSIVE InsertByDate(_, _)
InsertByDate(sorted, r) ==
    IF sorted = <<>> THEN <<r>>
    ELSE IF sorted[Len(sorted)].date_added <= r.date_added
    THEN Append(sorted, r)
    ELSE Append(InsertByDate(SubSeq(sorted, 1, Len(sorted) - 1), r),
                sorted[Len(sorted)])

RECURSIVE SortedByDate(_)
SortedByDate(reviews) ==
    IF reviews = <<>> THEN <<>>
    ELSE InsertByDate(SortedByDate(SubSeq(reviews, 1, Len(reviews) - 1)),
                      reviews[Len(reviews)])

\* get_reviewer_reviews, the entities being scanned in this order.
GetReviewerReviews(order, st, reviewer, unit_id) ==
    SortedByDate(CollectReviews(order, st, reviewer, unit_id, 1))

\* d[k] = v on a dict.
DictSet(d, k, v) == [x \in DOMAIN d \cup {k} |-> IF x = k THEN v ELSE d[x]]
\* del d[k] on a dict that has the key.
DictDel(d, k) == [x \in DOMAIN d \ {k} |-> d[x]]

\* The work dict submit_student_work stores.
NewWork(answers) == [submission |-> answers, reviewers |-> EmptyDict]

\* An entry without the time it was added.
NewEntryWithoutDate(t) == [review |-> NoReview, is_draft |-> TRUE]

\* An entry that is not marked as a draft.
NewEntryNotDraft(t) == [review |-> NoReview, is_draft |-> FALSE, date_added |-> t]

\* The entry add_reviewer stores for the new reviewer, the clock reading t.
NewEntry(t) == [review |-> NoReview, is_draft |-> TRUE, date_added |-> t]

\* An add_reviewer that appends an entry where it should overwrite: a reviewer
\* who has an entry gets a second one, under the name with a mark appended.
AddReviewerAppending(work, new_reviewer, t) ==
    [work EXCEPT !.reviewers =
        IF new_reviewer \in DOMAIN @
        THEN DictSet(@, new_reviewer \o <<"'">>, NewEntry(t))
        ELSE DictSet(@, new_reviewer, NewEntry(t))]

\* An add_reviewer that starts the reviewers dict anew.
AddReviewerReplacingAll(work, new_reviewer, t) ==
    [work EXCEPT !.reviewers = DictSet(EmptyDict, new_reviewer, NewEntry(t))]

\* add_reviewer's change of the work dict it fetched.
AddReviewerTo(work, new_reviewer, t) ==
    [work EXCEPT !.reviewers = DictSet(@, new_reviewer, NewEntry(t))]

\* delete_reviewer's change of the work dict it fetched.
DeleteReviewerFrom(work, reviewer_to_delete) ==
    [work EXCEPT !.reviewers = DictDel(@, reviewer_to_delete)]

\* A submit_review that stores a rebuilt entry, its date_added lost (0).
SubmitReviewRebuildingEntry(work, reviewer, review_data, is_draft) ==
    [work EXCEPT !.reviewers[reviewer] =
        [review |-> review_data, is_draft |-> is_draft, date_added |-> 0]]

\* A submit_review that leaves out line 313 (review).
SubmitReviewWithoutContent(work, reviewer, review_data, is_draft) ==
    [work EXCEPT !.reviewers[reviewer].is_draft = is_draft]

\* A submit_review that leaves out line 314 (is_draft).
SubmitReviewWithoutDraftFlag(work, reviewer, review_data, is_draft) ==
    [work EXCEPT !.reviewers[reviewer].review = review_data]

\* submit_review's change of the work dict it fetched (the reviewer has an
\* entry, and an entry is a non-empty dict, so the test of line 312 passes).
SubmitReviewTo(work, reviewer, review_data, is_draft) ==
    [work EXCEPT !.reviewers[reviewer].review = review_data,
                 !.reviewers[reviewer].is_draft = is_draft]

\* The values of progress_tracker's states: 0 (not started), 1 (in progress)
\* or 2 (completed).
ProgressTracker ==
    [NOT_STARTED_STATE |-> 0, IN_PROGRESS_STATE |-> 1, COMPLETED_STATE |-> 2]

\* A count that takes the drafts for the completed reviews.
RECURSIVE CountDraftReviews(_)
CountDraftReviews(reviews) ==
    IF reviews = <<>> THEN 0
    ELSE LET review == Head(reviews)
         IN  (IF "is_draft" \in DOMAIN review /\ review.is_draft THEN 1 ELSE 0)
                + CountDraftReviews(Tail(reviews))

\* ReviewUtils.count_completed_reviews: the loop over the reviews.
RECURSIVE CountCompletedReviews(_)
CountCompletedReviews(reviews) ==
    IF reviews = <<>> THEN 0
    ELSE LET review == Head(reviews)
         IN  (IF "is_draft" \in DOMAIN review /\ ~ review.is_draft THEN 1 ELSE 0)
                + CountCompletedReviews(Tail(reviews))

\* A test that asks for more than review_min_count completed reviews.
HasCompletedMoreThanEnough(reviews, review_min_count) ==
    CountCompletedReviews(reviews) > review_min_count

\* ReviewUtils.has_completed_enough_reviews
HasCompletedEnoughReviews(reviews, review_min_count) ==
    CountCompletedReviews(reviews) >= review_min_count

\* ReviewUtils.get_review_progress
GetReviewProgress(reviews, review_min_count, progress_tracker) ==
    LET completed_reviews == CountCompletedReviews(reviews)
    IN  IF HasCompletedEnoughReviews(reviews, review_min_count)
        THEN progress_tracker.COMPLETED_STATE
        ELSE IF completed_reviews > 0
        THEN progress_tracker.IN_PROGRESS_STATE
        ELSE progress_tracker.NOT_STARTED_STATE

(***************************************************************************)
(* The calls, one at a time: each action is one whole call.  Its outcome   *)
(* stays in the variable call until Return hands it to the caller, who     *)
(* then makes the next call.                                               *)
(***************************************************************************)
\* The record of a call: its arguments, the work dict it fetched with
\* get_student_work (NoWork where it fetched none), its outcome ("ok" or the
\* exception it raised) and the value it returned (NoStudent for None).
CallRecord(op, student, unit_id, reviewer, review_data, is_draft, work, outcome, result) ==
    [op |-> op, student |-> student, unit_id |-> unit_id, reviewer |-> reviewer,
     review_data |-> review_data, is_draft |-> is_draft, work |-> work,
     outcome |-> outcome, result |-> result]

\* No call is being answered: the caller may make the next one.
NoCall == CallRecord("none", NoStudent, 0, NoStudent, NoReview, TRUE, NoWork,
                     "ok", NoStudent)

Min(a, b) == IF a <= b THEN a ELSE b

\* The readings the clock can give at the next call.
ClockReadings == now .. Min(now + 1, MaxTime)

\* A call that raised after fetching work: nothing was written.  The record
\* keeps the key and the reviewer the call was made for.
Raise(op, student, unit_id, reviewer, work, exception) ==
    /\ call' = CallRecord(op, student, unit_id, reviewer, NoReview, TRUE, work,
                          exception, NoStudent)
    /\ UNCHANGED <<store, now, nputs, reqs, get_current_user>>

\* A call that fetched work and ended with _put_student_work(student, unit, new).
Put(op, student, unit_id, reviewer, review_data, is_draft, work, new) ==
    /\ store' = PutStudentWork(store, student, unit_id, new)
    /\ nputs' = nputs + 1
    /\ call' = CallRecord(op, student, unit_id, reviewer, review_data, is_draft,
                          work, "ok", NoStudent)
    /\ UNCHANGED <<reqs, get_current_user>>

\* What the record of a submit_student_work call holds besides: the answers
\* it was given, and the work dict of the entity _put_student_work found under
\* the key (NoWork where it found none).
SubmitArgs(answers, replaced) == [answers |-> answers, replaced |-> replaced]

\* A submit_student_work that keeps the reviewers of the record it replaces.
SubmitStudentWorkKeepingReviewers(student, unit_id, answers) ==
    LET replaced == GetStudentWork(store, student, unit_id)
        kept     == IF replaced = NoWork THEN EmptyDict ELSE replaced.reviewers
    IN  /\ store' = PutStudentWork(store, student, unit_id,
                                   [NewWork(answers) EXCEPT !.reviewers = kept])
        /\ nputs' = nputs + 1
        /\ call' = CallRecord("submit_student_work", student, unit_id, NoStudent,
                              NoReview, TRUE, NoWork, "ok", NoStudent)
                      @@ SubmitArgs(answers, replaced)
        /\ UNCHANGED <<now, reqs, get_current_user>>

\* A submit_student_work that leaves a record that exists as it is.
SubmitStudentWorkOnlyOnce(student, unit_id, answers) ==
    LET replaced == GetStudentWork(store, student, unit_id)
    IN  /\ store' = PutStudentWork(store, student, unit_id,
                                   IF replaced = NoWork THEN NewWork(answers)
                                   ELSE replaced)
        /\ nputs' = nputs + 1
        /\ call' = CallRecord("submit_student_work", student, unit_id, NoStudent,
                              NoReview, TRUE, NoWork, "ok", NoStudent)
                      @@ SubmitArgs(answers, replaced)
        /\ UNCHANGED <<now, reqs, get_current_user>>

\* submit_student_work(student, unit, answers): it fetches no work dict, and
\* _put_student_work overwrites the data of the entity it finds.
SubmitStudentWork(student, unit_id, answers) ==
    LET replaced == GetStudentWork(store, student, unit_id)
    IN  /\ store' = PutStudentWork(store, student, unit_id, NewWork(answers))
        /\ nputs' = nputs + 1
        /\ call' = CallRecord("submit_student_work", student, unit_id, NoStudent,
                              NoReview, TRUE, NoWork, "ok", NoStudent)
                      @@ SubmitArgs(answers, replaced)
        /\ UNCHANGED <<now, reqs, get_current_user>>

\* An add_reviewer that starts a record where it finds none.
AddReviewerCreatingRecord(student, unit_id, new_reviewer) ==
    LET found == GetStudentWork(store, student, unit_id)
        work  == IF found = NoWork THEN NewWork(<<>>) ELSE found
    IN  \E t \in ClockReadings :
            /\ now' = t
            /\ Put("add_reviewer", student, unit_id, new_reviewer, NoReview, TRUE,
                   found, AddReviewerTo(work, new_reviewer, t))

\* add_reviewer(student, unit, new_reviewer)
AddReviewer(student, unit_id, new_reviewer) ==
    LET work == GetStudentWork(store, student, unit_id)
    IN  IF work = NoWork
        THEN Raise("add_reviewer", student, unit_id, new_reviewer, work, "TypeError")
        ELSE \E t \in ClockReadings :
                /\ now' = t
                /\ Put("add_reviewer", student, unit_id, new_reviewer, NoReview, TRUE,
                       work, AddReviewerTo(work, new_reviewer, t))

\* delete_reviewer(student, unit, reviewer_to_delete)
DeleteReviewer(student, unit_id, reviewer_to_delete) ==
    LET work == GetStudentWork(store, student, unit_id)
    IN  IF work = NoWork
        THEN Raise("delete_reviewer", student, unit_id, reviewer_to_delete, work,
                   "TypeError")
        ELSE IF reviewer_to_delete \notin DOMAIN work.reviewers
        THEN Raise("delete_reviewer", student, unit_id, reviewer_to_delete, work,
                   "KeyError")
        ELSE /\ Put("delete_reviewer", student, unit_id, reviewer_to_delete,
                    NoReview, TRUE, work,
                    DeleteReviewerFrom(work, reviewer_to_delete))
             /\ UNCHANGED now

\* A submit_review that makes an entry for a reviewer who has none
\* (reviewers.setdefault(name, {})) instead of raising.
SubmitReviewCreatingEntry(student, unit_id, reviewer, review_data, is_draft) ==
    LET work == GetStudentWork(store, student, unit_id)
    IN  IF work = NoWork
        THEN Raise("submit_review", student, unit_id, reviewer, work, "TypeError")
        ELSE /\ Put("submit_review", student, unit_id, reviewer, review_data,
                    is_draft, work,
                    [work EXCEPT !.reviewers =
                        DictSet(@, reviewer,
                                [review |-> review_data, is_draft |-> is_draft])])
             /\ UNCHANGED now

\* submit_review(student, unit, reviewer, review_data, is_draft)
SubmitReview(student, unit_id, reviewer, review_data, is_draft) ==
    LET work == GetStudentWork(store, student, unit_id)
    IN  IF work = NoWork
        THEN Raise("submit_review", student, unit_id, reviewer, work, "TypeError")
        ELSE IF reviewer \notin DOMAIN work.reviewers
        THEN Raise("submit_review", student, unit_id, reviewer, work, "KeyError")
        ELSE /\ Put("submit_review", student, unit_id, reviewer, review_data,
                    is_draft, work,
                    SubmitReviewTo(work, reviewer, review_data, is_draft))
             /\ UNCHANGED now

\* get_new_submission_for_review(reviewer, unit)
NewSubmissionForReview(reviewer, unit_id) ==
    /\ \E order \in ScanOrders(store) :
          call' = CallRecord("get_new_submission_for_review", NoStudent, unit_id,
                             reviewer, NoReview, TRUE, NoWork, "ok",
                             GetNewSubmissionForReview(order, store, reviewer, unit_id))
    /\ UNCHANGED <<store, now, nputs, reqs, get_current_user>>

\* get_reviewer_reviews(reviewer, unit)
ReviewerReviews(reviewer, unit_id) ==
    /\ \E order \in ScanOrders(store) :
          call' = CallRecord("get_reviewer_reviews", NoStudent, unit_id, reviewer,
                             NoReview, TRUE, NoWork, "ok",
                             GetReviewerReviews(order, store, reviewer, unit_id))
    /\ UNCHANGED <<store, now, nputs, reqs, get_current_user>>

\* The call returns (or its exception reaches the caller).
Return ==
    /\ call # NoCall
    /\ call' = NoCall
    /\ UNCHANGED <<store, now, nputs, reqs, get_current_user>>

\* The requests of the concurrent runs: none has arrived.
NoRequests == [i \in ReqIds |-> [pc |-> "new"]]

Init ==
    /\ store = EmptyDict
    /\ now = 0
    /\ nputs = 0
    /\ call = NoCall
    /\ reqs = NoRequests
    /\ get_current_user = OriginalAccessor

\* The caller is ready to make a call.
Idle == call = NoCall
\* The step keeps the number of writes within n.
Within(n) == nputs' <= n

Next ==
    \/ \E s \in Names, u \in UnitIds, a \in Answers :
          Idle /\ SubmitStudentWork(s, u, a) /\ Within(MaxPuts)
    \/ \E s \in Names, u \in UnitIds, r \in Names :
          Idle /\ AddReviewer(s, u, r) /\ Within(MaxPuts)
    \/ \E s \in Names, u \in UnitIds, r \in Names :
          Idle /\ DeleteReviewer(s, u, r) /\ Within(MaxPuts)
    \/ \E s \in Names, u \in UnitIds, r \in Names, d \in ReviewData, f \in BOOLEAN :
          Idle /\ SubmitReview(s, u, r, d, f) /\ Within(MaxPuts)
    \/ \E r \in Names, u \in UnitIds : Idle /\ NewSubmissionForReview(r, u)
    \/ \E r \in Names, u \in UnitIds : Idle /\ ReviewerReviews(r, u)
    \/ Return

Spec == Init /\ [][Next]_vars

(***************************************************************************)
(* Assignment runs: students submit work, and reviewers are given work     *)
(* only by get_new_submission_for_review followed by add_reviewer for the  *)
(* student it returned.                                                    *)
(***************************************************************************)
\* get_new_submission_for_review has returned a student to the caller.
StudentReturned ==
    /\ call.op = "get_new_submission_for_review"
    /\ call.result # NoStudent

\* The caller passes the returned student on to add_reviewer.
AddReturnedStudent ==
    /\ StudentReturned
    /\ AddReviewer(call.result, call.unit_id, call.reviewer)

NextAssign ==
    \/ \E s \in Names, u \in UnitIds, a \in AssignAnswers :
          Idle /\ SubmitStudentWork(s, u, a) /\ Within(MaxAssignPuts)
    \/ \E r \in Names, u \in UnitIds : Idle /\ NewSubmissionForReview(r, u)
    \/ AddReturnedStudent /\ Within(MaxAssignPuts)
    \/ Return

SpecAssign == Init /\ [][NextAssign]_vars

(***************************************************************************)
(* Assignment runs in which the reviewers submit no work of their own: two *)
(* students submit work for one unit, and two other people review.         *)
(***************************************************************************)
SpreadStudents == {<<"a">>, <<"b">>}
SpreadReviewers == {<<"c">>, <<"d">>}
SpreadUnitIds == {1}

NextSpread ==
    \/ \E s \in SpreadStudents, u \in SpreadUnitIds, a \in Answers :
          Idle /\ SubmitStudentWork(s, u, a) /\ Within(MaxSpreadPuts)
    \/ \E r \in SpreadReviewers, u \in SpreadUnitIds :
          Idle /\ NewSubmissionForReview(r, u)
    \/ AddReturnedStudent /\ Within(MaxSpreadPuts)
    \/ Return

SpecSpread == Init /\ [][NextSpread]_vars

(***************************************************************************)
(* Longer runs with fewer names: two students submit and resubmit work,    *)
(* and one reviewer is added, reviews, and is deleted.                     *)
(***************************************************************************)
LongStudents == {<<"a">>, <<"b">>}
LongReviewers == {<<"c">>}
LongUnitIds == {1, 2}

NextLong ==
    \/ \E s \in LongStudents, u \in LongUnitIds, a \in Answers :
          Idle /\ SubmitStudentWork(s, u, a) /\ Within(MaxLongPuts)
    \/ \E s \in LongStudents, u \in LongUnitIds, r \in LongReviewers :
          Idle /\ AddReviewer(s, u, r) /\ Within(MaxLongPuts)
    \/ \E s \in LongStudents, u \in LongUnitIds, r \in LongReviewers :
          Idle /\ DeleteReviewer(s, u, r) /\ Within(MaxLongPuts)
    \/ \E s \in LongStudents, u \in LongUnitIds, r \in LongReviewers,
          d \in ReviewData, f \in BOOLEAN :
          Idle /\ SubmitReview(s, u, r, d, f) /\ Within(MaxLongPuts)
    \/ \E r \in LongReviewers, u \in LongUnitIds : Idle /\ ReviewerReviews(r, u)
    \/ Return

SpecLong == Init /\ [][NextLong]_vars

(***************************************************************************)
(* get_review_progress on its own: the call is given a list of reviews and *)
(* a review_min_count, and computes the progress.                          *)
(***************************************************************************)
\* The reviews given: dicts with the keys the progress functions read, the
\* key is_draft being there or not.
ProgressReviews ==
    {[review |-> d, is_draft |-> f] : d \in ReviewData, f \in BOOLEAN}
        \cup {[review |-> NoReview]}
ProgressReviewLists == UNION {[1..n -> ProgressReviews] : n \in 0..MaxReviews}
MinCounts == 0..MaxMinCount

\* The record of a get_review_progress call: its arguments, whether it has
\* been answered ("called", then "ok"), and the value returned.
ProgressCall(reviews, review_min_count, outcome, result) ==
    [op |-> "get_review_progress", reviews |-> reviews,
     review_min_count |-> review_min_count, outcome |-> outcome, result |-> result]

InitProgress ==
    /\ store = EmptyDict
    /\ now = 0
    /\ nputs = 0
    /\ reqs = NoRequests
    /\ get_current_user = OriginalAccessor
    /\ \E reviews \in ProgressReviewLists, n \in MinCounts :
          call = ProgressCall(reviews, n, "called", NoStudent)

\* get_review_progress(reviews, review_min_count, progress_tracker)
ReviewProgress ==
    /\ call.op = "get_review_progress"
    /\ call.outcome = "called"
    /\ call' = ProgressCall(call.reviews, call.review_min_count, "ok",
                            GetReviewProgress(call.reviews, call.review_min_count,
                                              ProgressTracker))
    /\ UNCHANGED <<store, now, nputs, reqs, get_current_user>>

NextProgress == ReviewProgress

SpecProgress == InitProgress /\ [][NextProgress]_vars

(***************************************************************************)
(* Concurrent requests.  Each request makes one call; get_by_key_name and  *)
(* put are the points where requests interleave, so a call that reads,     *)
(* changes and writes a work dict takes three steps: it fetches the dict   *)
(* and changes its own copy (lines 310-314, 344-348, 353-354), then        *)
(* _put_student_work looks the entity up (line 364), and then it puts the  *)
(* copy (lines 365-369).  A run starts when a student has submitted work,  *)
(* and the requests are reviewers' calls on that work.                     *)
(***************************************************************************)
\* The work the requests of a concurrent run are about, and the reviewers
\* the requests are made for.
ConcStudents == {<<"a">>}
ConcUnitIds == {1}
ConcReviewers == {<<"b">>, <<"c">>}

\* A request that has arrived; work is its copy of the work dict.
Request(pc, op, student, unit_id, reviewer, review_data, is_draft, work) ==
    [pc |-> pc, op |-> op, student |-> student, unit_id |-> unit_id,
     reviewer |-> reviewer, review_data |-> review_data, is_draft |-> is_draft,
     work |-> work]

InitConc ==
    /\ store = [k \in {KeyString(s, u) : s \in ConcStudents, u \in ConcUnitIds}
                  |-> NewWork(<<"x">>)]
    /\ now = 0
    /\ nputs = 0
    /\ call = NoCall
    /\ reqs = NoRequests
    /\ get_current_user = OriginalAccessor

\* Request i arrives next: the requests are numbered in the order of arrival.
Arrives(i) ==
    /\ reqs[i].pc = "new"
    /\ \A j \in ReqIds : j < i => reqs[j].pc # "new"

\* add_reviewer up to the put (lines 344-348).
FetchForAddReviewer(i, student, unit_id, new_reviewer) ==
    /\ Arrives(i)
    /\ LET work == GetStudentWork(store, student, unit_id)
       IN  IF work = NoWork
           THEN /\ reqs' = [reqs EXCEPT ![i] =
                      Request("TypeError", "add_reviewer", student, unit_id,
                              new_reviewer, NoReview, TRUE, work)]
                /\ UNCHANGED now
           ELSE \E t \in ClockReadings :
                  /\ now' = t
                  /\ reqs' = [reqs EXCEPT ![i] =
                       Request("fetched", "add_reviewer", student, unit_id,
                               new_reviewer, NoReview, TRUE,
                               AddReviewerTo(work, new_reviewer, t))]
    /\ UNCHANGED <<store, nputs, call, get_current_user>>

\* delete_reviewer up to the put (lines 353-354).
FetchForDeleteReviewer(i, student, unit_id, reviewer_to_delete) ==
    /\ Arrives(i)
    /\ LET work == GetStudentWork(store, student, unit_id)
       IN  reqs' = [reqs EXCEPT ![i] =
             IF work = NoWork
             THEN Request("TypeError", "delete_reviewer", student, unit_id,
                          reviewer_to_delete, NoReview, TRUE, work)
             ELSE IF reviewer_to_delete \notin DOMAIN work.reviewers
             THEN Request("KeyError", "delete_reviewer", student, unit_id,
                          reviewer_to_delete, NoReview, TRUE, work)
             ELSE Request("fetched", "delete_reviewer", student, unit_id,
                          reviewer_to_delete, NoReview, TRUE,
                          DeleteReviewerFrom(work, reviewer_to_delete))]
    /\ UNCHANGED <<store, now, nputs, call, get_current_user>>

\* submit_review up to the put (lines 310-314).
FetchForSubmitReview(i, student, unit_id, reviewer, review_data, is_draft) ==
    /\ Arrives(i)
    /\ LET work == GetStudentWork(store, student, unit_id)
       IN  reqs' = [reqs EXCEPT ![i] =
             IF work = NoWork
             THEN Request("TypeError", "submit_review", student, unit_id,
                          reviewer, review_data, is_draft, work)
             ELSE IF reviewer \notin DOMAIN work.reviewers
             THEN Request("KeyError", "submit_review", student, unit_id,
                          reviewer, review_data, is_draft, work)
             ELSE Request("fetched", "submit_review", student, unit_id,
                          reviewer, review_data, is_draft,
                          SubmitReviewTo(work, reviewer, review_data, is_draft))]
    /\ UNCHANGED <<store, now, nputs, call, get_current_user>>

\* What a request inside _put_student_work holds besides: answers, the data
\* of the entity get_by_key_name found under the key (NoWork where it found
\* none and a new entity is made, lines 365-366).
PutLocals(answers) == [answers |-> answers]

\* The _put_student_work that ends add_reviewer, delete_reviewer and
\* submit_review (lines 315, 349, 355), up to its get_by_key_name (line 364).
FindEntity(i) ==
    /\ reqs[i].pc = "fetched"
    /\ reqs' = [reqs EXCEPT ![i] =
          [reqs[i] EXCEPT !.pc = "found"]
             @@ PutLocals(GetStudentWork(store, reqs[i].student, reqs[i].unit_id))]
    /\ UNCHANGED <<store, now, nputs, call, get_current_user>>

\* The rest of _put_student_work (lines 365-369): the entity found, or a new
\* one, gets the work dict as its data and is put; the call ends.
WriteBack(i) ==
    /\ reqs[i].pc = "found"
    /\ store' = PutStudentWork(store, reqs[i].student, reqs[i].unit_id, reqs[i].work)
    /\ nputs' = nputs + 1
    /\ reqs' = [reqs EXCEPT ![i] =
          Request("done", reqs[i].op, reqs[i].student, reqs[i].unit_id,
                  reqs[i].reviewer, reqs[i].review_data, reqs[i].is_draft,
                  reqs[i].work)]
    /\ UNCHANGED <<now, call, get_current_user>>

NextConc ==
    \/ \E i \in ReqIds, s \in ConcStudents, u \in ConcUnitIds, r \in ConcReviewers :
          FetchForAddReviewer(i, s, u, r)
    \/ \E i \in ReqIds, s \in ConcStudents, u \in ConcUnitIds, r \in ConcReviewers :
          FetchForDeleteReviewer(i, s, u, r)
    \/ \E i \in ReqIds, s \in ConcStudents, u \in ConcUnitIds, r \in ConcReviewers,
          d \in ReviewData, f \in BOOLEAN :
          FetchForSubmitReview(i, s, u, r, d, f)
    \/ \E i \in ReqIds : FindEntity(i)
    \/ \E i \in ReqIds : WriteBack(i)

SpecConc == InitConc /\ [][NextConc]_vars

(***************************************************************************)
(* Requests of StudentHandler served concurrently: some generate a page    *)
(* through delegate_to, others ask get_enrolled_student who their user is. *)
(* They share the module attribute users.get_current_user; each step is a  *)
(* statement that reads or writes it.                                      *)
(***************************************************************************)
\* What calling the function bound to users.get_current_user returns in a
\* request made by env_user: the function of the users module gives the
\* request's own user, get_placeholder_user the placeholder.
CallAccessor(fn, env_user) ==
    IF fn.fn = "get_placeholder_user" THEN USER_EMAIL_PLACE_HOLDER ELSE env_user

\* A request running delegate_to: its place, the user it is made by, and the
\* locals get_current_user_old and user; raised tells how handler.get() ended.
DelegateRequest(pc, env_user, get_current_user_old, user, raised) ==
    [pc |-> pc, op |-> "delegate_to", env_user |-> env_user,
     get_current_user_old |-> get_current_user_old, user |-> user,
     raised |-> raised]

\* A request that has run get_enrolled_student: user is its local.
EnrolledRequest(env_user, user) ==
    [pc |-> "done", op |-> "get_enrolled_student", env_user |-> env_user,
     user |-> user]

\* delegate_to, line 290: get_current_user_old = users.get_current_user
DelegateToSaves(i, env_user) ==
    /\ Arrives(i)
    /\ reqs' = [reqs EXCEPT ![i] =
          DelegateRequest("saved", env_user, get_current_user, NoUser, FALSE)]
    /\ UNCHANGED <<store, now, nputs, call, get_current_user>>

\* delegate_to, line 292: user = users.get_current_user()
DelegateToAsks(i) ==
    /\ reqs[i].pc = "saved"
    /\ reqs' = [reqs EXCEPT ![i].pc = "asked",
                            ![i].user = CallAccessor(get_current_user, reqs[i].env_user)]
    /\ UNCHANGED <<store, now, nputs, call, get_current_user>>

\* delegate_to, lines 293-294: if user: users.get_current_user = get_placeholder_user
DelegateToSwaps(i) ==
    /\ reqs[i].pc = "asked"
    /\ reqs' = [reqs EXCEPT ![i].pc = "running"]
    /\ get_current_user' = IF reqs[i].user # NoUser
                           THEN Accessor("get_placeholder_user", i)
                           ELSE get_current_user
    /\ UNCHANGED <<store, now, nputs, call>>

\* delegate_to, line 295: handler.get() returns or raises.
HandlerGet(i, raises) ==
    /\ reqs[i].pc = "running"
    /\ reqs' = [reqs EXCEPT ![i].pc = "finally", ![i].raised = raises]
    /\ UNCHANGED <<store, now, nputs, call, get_current_user>>

\* delegate_to, line 297: users.get_current_user = get_current_user_old, and
\* the call ends (line 299, or the exception goes on).
DelegateToRestores(i) ==
    /\ reqs[i].pc = "finally"
    /\ get_current_user' = reqs[i].get_current_user_old
    /\ reqs' = [reqs EXCEPT ![i].pc = IF reqs[i].raised THEN "raised" ELSE "returned"]
    /\ UNCHANGED <<store, now, nputs, call>>

\* get_enrolled_student, line 302: user = users.get_current_user()
GetEnrolledStudent(i, env_user) ==
    /\ Arrives(i)
    /\ reqs' = [reqs EXCEPT ![i] =
          EnrolledRequest(env_user, CallAccessor(get_current_user, env_user))]
    /\ UNCHANGED <<store, now, nputs, call, get_current_user>>

NextDelegate ==
    \/ \E i \in ReqIds, e \in Emails \cup {NoUser} : DelegateToSaves(i, e)
    \/ \E i \in ReqIds : DelegateToAsks(i)
    \/ \E i \in ReqIds : DelegateToSwaps(i)
    \/ \E i \in ReqIds, raises \in BOOLEAN : HandlerGet(i, raises)
    \/ \E i \in ReqIds : DelegateToRestores(i)
    \/ \E i \in ReqIds, e \in Emails \cup {NoUser} : GetEnrolledStudent(i, e)

SpecDelegate == Init /\ [][NextDelegate]_vars

(***************************************************************************)
(* Properties of concurrent requests (SpecConc).                           *)
(***************************************************************************)
\* Request i has fetched the work dict (and may have written it back).
Started(i) == reqs[i].pc \in {"fetched", "found", "done"}

\* Request i is an add_reviewer that has written the work dict back.
AddReviewerDone(i) == reqs[i].pc = "done" /\ reqs[i].op = "add_reviewer"

\* C1: when two add_reviewer calls for different reviewers of the same work
\* have both completed, and no other call has touched the work, both reviewers
\* are in the stored reviewers dict, however the two calls interleaved.
C1_ConcurrentAddsBothStored ==
    \A i, j \in ReqIds :
        (/\ i # j
         /\ AddReviewerDone(i)
         /\ AddReviewerDone(j)
         /\ reqs[i].student = reqs[j].student
         /\ reqs[i].unit_id = reqs[j].unit_id
         /\ reqs[i].reviewer # reqs[j].reviewer
         /\ \A k \in ReqIds \ {i, j} : ~ Started(k))
        => {reqs[i].reviewer, reqs[j].reviewer}
              \subseteq DOMAIN store[KeyString(reqs[i].student, reqs[i].unit_id)].reviewers

\* Request i is a submit_review for this record and reviewer that got as far
\* as changing its copy of the work dict.
SubmitReviewStarted(i, key, reviewer) ==
    /\ Started(i)
    /\ reqs[i].op = "submit_review"
    /\ KeyString(reqs[i].student, reqs[i].unit_id) = key
    /\ reqs[i].reviewer = reviewer

\* C22: however the requests interleave, the review and is_draft of every
\* stored entry are either those add_reviewer gave it (no review, draft) or
\* the review_data and is_draft of one submit_review: never the one field of
\* a submit_review with the other field of before.
C22_ReviewAndDraftTogether ==
    \A k \in DOMAIN store : \A r \in DOMAIN store[k].reviewers :
        LET entry == store[k].reviewers[r]
        IN  \/ entry.review = NoReview /\ entry.is_draft = TRUE
            \/ \E i \in ReqIds :
                  /\ SubmitReviewStarted(i, k, r)
                  /\ entry.review = reqs[i].review_data
                  /\ entry.is_draft = reqs[i].is_draft

\* C22 witness: a submit_review has written a final review into the entry
\* while another request that fetched the work dict has yet to write it back.
C22_Witness ==
    \E k \in DOMAIN store : \E r \in DOMAIN store[k].reviewers :
        /\ store[k].reviewers[r].review = "good"
        /\ store[k].reviewers[r].is_draft = FALSE
        /\ \E i, j \in ReqIds :
              /\ i # j
              /\ SubmitReviewStarted(i, k, r)
              /\ reqs[i].pc = "done"
              /\ reqs[j].pc = "fetched"

(***************************************************************************)
(* Properties of the calls made one at a time (Spec).                      *)
(***************************************************************************)
\* The step that makes the call op.
Calls(op) == call = NoCall /\ call'.op = op
\* The call op is being answered, and it did not raise.
Answered(op) == call.op = op /\ call.outcome = "ok"

\* The key of the record a call names.
CallKey(c) == KeyString(c.student, c.unit_id)

\* The students of the unit whose stored work has an entry for the reviewer.
ReviewedBy(st, reviewer, unit_id) ==
    {s \in Names : /\ KeyString(s, unit_id) \in DOMAIN st
                   /\ reviewer \in DOMAIN st[KeyString(s, unit_id)].reviewers}

\* The record of (student, unit) is an eligible candidate for the reviewer: it
\* exists, the reviewer has no entry in it, and its owner is not the reviewer.
Eligible(st, student, reviewer, unit_id) ==
    /\ KeyString(student, unit_id) \in DOMAIN st
    /\ reviewer \notin DOMAIN st[KeyString(student, unit_id)].reviewers
    /\ student # reviewer

\* C2: get_new_submission_for_review never returns the reviewer's own student
\* key, whatever the store holds.
C2_NeverOwnSubmission ==
    Answered("get_new_submission_for_review") => call.result # call.reviewer

\* C2 witness: the reviewer has work of their own in the unit, and the call
\* returned a student.
C2_Witness ==
    /\ Answered("get_new_submission_for_review")
    /\ KeyString(call.reviewer, call.unit_id) \in DOMAIN store
    /\ call.result # NoStudent

\* C3: the work of the student get_new_submission_for_review returns has no
\* more reviewers than any other eligible record of the unit.
C3_LeastLoaded ==
    (Answered("get_new_submission_for_review") /\ call.result # NoStudent) =>
        \A s \in Names :
            Eligible(store, s, call.reviewer, call.unit_id) =>
                /\ KeyString(call.result, call.unit_id) \in DOMAIN store
                /\ NumReviewers(store[KeyString(call.result, call.unit_id)])
                      <= NumReviewers(store[KeyString(s, call.unit_id)])

\* C3 witness: a student was returned while another eligible record of the
\* unit has strictly more reviewers.
C3_Witness ==
    /\ Answered("get_new_submission_for_review")
    /\ call.result # NoStudent
    /\ \E s \in Names :
          /\ Eligible(store, s, call.reviewer, call.unit_id)
          /\ NumReviewers(store[KeyString(s, call.unit_id)])
               > NumReviewers(store[KeyString(call.result, call.unit_id)])

\* C4: get_new_submission_for_review returns only the owner of an eligible
\* record, and returns None exactly when no record is eligible.
C4_ReturnsEligibleOrNone ==
    Answered("get_new_submission_for_review") =>
        /\ call.result # NoStudent =>
              Eligible(store, call.result, call.reviewer, call.unit_id)
        /\ call.result = NoStudent <=>
              ~ \E s \in Names : Eligible(store, s, call.reviewer, call.unit_id)

\* C4 witness: None was returned although the store holds a record of the
\* unit (the reviewer's own, or one the reviewer is in) and a record of
\* another unit that the reviewer neither owns nor reviews.
C4_Witness ==
    /\ Answered("get_new_submission_for_review")
    /\ call.result = NoStudent
    /\ \E s \in Names : KeyString(s, call.unit_id) \in DOMAIN store
    /\ \E s \in Names, u \in UnitIds :
          u # call.unit_id /\ Eligible(store, s, call.reviewer, u)

\* C5: no stored record has its own student among its reviewers.
C5_NoSelfReviewEntry ==
    \A s \in Names, u \in UnitIds :
        KeyString(s, u) \in DOMAIN store =>
            s \notin DOMAIN store[KeyString(s, u)].reviewers

\* C6: add_reviewer for an existing record, with the reviewer being the
\* student, fails with InvalidInput and leaves the stored record as it was.
C6_SelfAssignmentRejected ==
    (/\ call.op = "add_reviewer"
     /\ call.student = call.reviewer
     /\ call.work # NoWork)
    => (call.outcome = "InvalidInput" /\ store[CallKey(call)] = call.work)

\* C8: add_reviewer for a reviewer who already has an entry in the record
\* (from an earlier add_reviewer) leaves the record with the same reviewers,
\* as many as before, that reviewer among them.
C8_AddReviewerIdempotent ==
    (/\ Answered("add_reviewer")
     /\ call.reviewer \in DOMAIN call.work.reviewers)
    => /\ DOMAIN store[CallKey(call)].reviewers = DOMAIN call.work.reviewers
       /\ NumReviewers(store[CallKey(call)]) = NumReviewers(call.work)
       /\ call.reviewer \in DOMAIN store[CallKey(call)].reviewers

\* C8 witness: add_reviewer ran for a reviewer whom an earlier add_reviewer had
\* given an entry at another time.
C8_Witness ==
    /\ Answered("add_reviewer")
    /\ call.reviewer \in DOMAIN call.work.reviewers
    /\ call.work.reviewers[call.reviewer].date_added
         # store[CallKey(call)].reviewers[call.reviewer].date_added

\* C9 as claimed: as long as a reviewer has an entry in a record, no call
\* changes the entry's date_added (stated for the entries the data model
\* allows, those of reviewers other than the record's student).
C9_DateAddedNeverChanges ==
    [][\A k \in DOMAIN store \cap DOMAIN store' :
         \A r \in DOMAIN store[k].reviewers \cap DOMAIN store'[k].reviewers :
            r # StudentKeyOf(k) =>
                store'[k].reviewers[r].date_added = store[k].reviewers[r].date_added]_vars

\* C9 amended: the date_added of an entry changes only in an add_reviewer for
\* the same record and reviewer, which sets it to the clock reading of that
\* call; submit_review, delete_reviewer and add_reviewer for another reviewer
\* leave it alone.
C9_DateAddedChangesOnlyOnReAdd ==
    [][\A k \in DOMAIN store \cap DOMAIN store' :
         \A r \in DOMAIN store[k].reviewers \cap DOMAIN store'[k].reviewers :
            store'[k].reviewers[r].date_added # store[k].reviewers[r].date_added
            => /\ Calls("add_reviewer")
               /\ CallKey(call') = k
               /\ call'.reviewer = r
               /\ store'[k].reviewers[r].date_added = now']_vars

\* C9 witness: add_reviewer ran for another reviewer of a record in which an
\* entry made at an earlier time is still stored with that time.
C9_Witness ==
    /\ Answered("add_reviewer")
    /\ \E r \in DOMAIN call.work.reviewers :
          /\ r # call.reviewer
          /\ store[CallKey(call)].reviewers[r].date_added
               = call.work.reviewers[r].date_added
          /\ store[CallKey(call)].reviewers[r].date_added
               < store[CallKey(call)].reviewers[call.reviewer].date_added

\* C10: a submit_review for a reviewer who has an entry stores review_data and
\* is_draft in the entry and keeps its date_added.
C10_SubmitReviewSetsEntry ==
    (/\ call.op = "submit_review"
     /\ call.work # NoWork
     /\ call.reviewer \in DOMAIN call.work.reviewers)
    => /\ call.outcome = "ok"
       /\ store[CallKey(call)].reviewers[call.reviewer]
            = [review     |-> call.review_data,
               is_draft   |-> call.is_draft,
               date_added |-> call.work.reviewers[call.reviewer].date_added]

\* C10 witness: a final review was submitted for an entry added at time 1.
C10_Witness ==
    /\ Answered("submit_review")
    /\ call.review_data = "good"
    /\ call.is_draft = FALSE
    /\ store[CallKey(call)].reviewers[call.reviewer]
         = [review |-> "good", is_draft |-> FALSE, date_added |-> 1]

\* The call op was made for a record that exists and in which the reviewer
\* it names has no entry.
ForUnassignedReviewer(op) ==
    /\ call.op = op
    /\ call.work # NoWork
    /\ call.reviewer \notin DOMAIN call.work.reviewers

\* C11: a submit_review for a reviewer who has no entry in the existing record
\* ends in an error that reaches the caller, makes no entry for the reviewer,
\* and leaves the stored record as it was.
C11_UnassignedSubmitReviewFails ==
    ForUnassignedReviewer("submit_review")
    => /\ call.outcome # "ok"
       /\ call.reviewer \notin DOMAIN store[CallKey(call)].reviewers
       /\ store[CallKey(call)] = call.work

\* C11 witness: submit_review raised for a reviewer without an entry in a
\* record that has an entry for another reviewer.
C11_Witness ==
    /\ ForUnassignedReviewer("submit_review")
    /\ call.outcome = "KeyError"
    /\ call.work.reviewers # EmptyDict

\* C12: a delete_reviewer for a reviewer who has no entry in the existing
\* record fails with NotFound, and the stored record is unchanged.
C12_DeleteUnassignedNotFound ==
    ForUnassignedReviewer("delete_reviewer")
    => (call.outcome = "NotFound" /\ store[CallKey(call)] = call.work)

\* The calls that fetch the work dict before they change it.
FetchingOps == {"add_reviewer", "delete_reviewer", "submit_review"}

\* C13: add_reviewer, delete_reviewer and submit_review called for a key that
\* has no record each fail, and the store stays as it was (no record is made).
C13_AbsentRecordCallsFail ==
    [][(/\ call = NoCall
        /\ call'.op \in FetchingOps
        /\ CallKey(call') \notin DOMAIN store)
       => (/\ call'.outcome # "ok"
           /\ store' = store
           /\ CallKey(call') \notin DOMAIN store')]_vars

\* C13 witness: one of the three calls raised for a key without a record
\* while the store holds the same student's record of the other unit.
C13_Witness ==
    /\ call.op \in FetchingOps
    /\ call.work = NoWork
    /\ call.outcome = "TypeError"
    /\ CallKey(call) \notin DOMAIN store
    /\ \E u \in UnitIds : KeyString(call.student, u) \in DOMAIN store

\* The views get_reviewer_reviews can return, the store being st.
ReviewLists(st, reviewer, unit_id) ==
    {GetReviewerReviews(order, st, reviewer, unit_id) : order \in ScanOrders(st)}

\* C14 as claimed: right after submit_student_work(student, unit, answers),
\* get_reviewer_reviews(R, unit) returns an empty list for every reviewer R
\* (stated for the stores the data model allows, those in which no record has
\* its own student among its reviewers).
C14_NoReviewsAfterSubmit ==
    (Answered("submit_student_work") /\ C5_NoSelfReviewEntry) =>
        \A r \in Names : ReviewLists(store, r, call.unit_id) = {<<>>}

\* C14 amended: right after submit_student_work(student, unit, answers),
\* get_reviewer_reviews(R, unit) returns no view of that student's work; its
\* views are those of the other students' records of the unit in which R has
\* an entry, and the list is empty when there are none.
C14_NoReviewOfSubmittedWork ==
    Answered("submit_student_work") =>
        \A r \in Names : \A reviews \in ReviewLists(store, r, call.unit_id) :
            /\ \A i \in 1..Len(reviews) :
                  /\ reviews[i].student # call.student
                  /\ reviews[i].student \in ReviewedBy(store, r, call.unit_id)
            /\ ReviewedBy(store, r, call.unit_id) = {} => reviews = <<>>

\* C14 witness: the submission replaced a record that had a reviewer.
C14_Witness ==
    /\ Answered("submit_student_work")
    /\ call.replaced # NoWork
    /\ call.replaced.reviewers # EmptyDict

\* The store as it was before the call being answered wrote the work dict
\* it had fetched and changed.
StoreBefore == PutStudentWork(store, call.student, call.unit_id, call.work)

\* C20: after add_reviewer has given reviewer B an entry in student A's work,
\* B having no entry in other work of the unit, get_reviewer_reviews(B, unit)
\* returns one view, with no review and is_draft true; and after a
\* submit_review of B with is_draft false, B's progress for one required
\* review is COMPLETED.
C20_AssignThenComplete ==
    /\ (/\ Answered("add_reviewer")
         /\ ReviewedBy(StoreBefore, call.reviewer, call.unit_id) \subseteq {call.student})
        => \A reviews \in ReviewLists(store, call.reviewer, call.unit_id) :
              /\ Len(reviews) = 1
              /\ reviews[1].student = call.student
              /\ reviews[1].review = NoReview
              /\ reviews[1].is_draft = TRUE
    /\ (Answered("submit_review") /\ call.is_draft = FALSE)
        => \A reviews \in ReviewLists(store, call.reviewer, call.unit_id) :
              GetReviewProgress(reviews, 1, ProgressTracker)
                 = ProgressTracker.COMPLETED_STATE

\* C20 witness: student A's work is the only record, reviewer B (not A) was
\* given an entry in it, and B's submit_review with is_draft false has made
\* the untouched entry final.
C20_Witness ==
    /\ Answered("submit_review")
    /\ call.is_draft = FALSE
    /\ call.review_data = "good"
    /\ call.student # call.reviewer
    /\ DOMAIN store = {CallKey(call)}
    /\ DOMAIN call.work.reviewers = {call.reviewer}
    /\ call.work.reviewers[call.reviewer].review = NoReview
    /\ call.work.reviewers[call.reviewer].is_draft = TRUE

\* C23: a submit_review with is_draft false and no review content is rejected
\* as InvalidInput, and no stored entry has is_draft false without a review
\* (stated for the entries the data model allows, those of reviewers other
\* than the record's student).
C23_NoFinalReviewWithoutContent ==
    /\ (/\ call.op = "submit_review"
         /\ call.student # call.reviewer
         /\ call.work # NoWork
         /\ call.reviewer \in DOMAIN call.work.reviewers
         /\ call.is_draft = FALSE
         /\ call.review_data = NoReview)
        => call.outcome = "InvalidInput"
    /\ \A k \in DOMAIN store : \A r \in DOMAIN store[k].reviewers :
          (r # StudentKeyOf(k) /\ store[k].reviewers[r].is_draft = FALSE)
          => store[k].reviewers[r].review # NoReview

EntryKeys == {"review", "is_draft", "date_added"}

\* C26: every entry of every stored record has the three keys review,
\* is_draft and date_added, and so has, with student and submission, every
\* view get_reviewer_reviews returns.
C26_EntriesCarryAllFields ==
    /\ \A k \in DOMAIN store : \A r \in DOMAIN store[k].reviewers :
          DOMAIN store[k].reviewers[r] = EntryKeys
    /\ Answered("get_reviewer_reviews") =>
          \A i \in 1..Len(call.result) :
              DOMAIN call.result[i] = EntryKeys \cup {"student", "submission"}

\* C26 witness: get_reviewer_reviews returned the view of an entry that
\* add_reviewer made and submit_review changed.
C26_Witness ==
    /\ Answered("get_reviewer_reviews")
    /\ Len(call.result) = 1
    /\ call.result[1].review = "good"
    /\ call.result[1].is_draft = FALSE

(***************************************************************************)
(* Properties of the assignment runs (SpecAssign).                         *)
(***************************************************************************)
\* C7 as claimed: a reviewer has an entry in at most one record of a unit.
C7_AtMostOneRecordPerUnit ==
    \A r \in Names, u \in UnitIds : Cardinality(ReviewedBy(store, r, u)) <= 1

\* C7 amended: each run gives the reviewer an entry in one record of the unit
\* that is not the reviewer's own and in which the reviewer had no entry; the
\* other entries of that record stay, and no record ever has its own student
\* among its reviewers.  (A reviewer so comes to have entries in several
\* records of a unit, one for each run.)
C7_EachRunAddsOneNewRecord ==
    /\ Answered("add_reviewer") =>
          /\ call.student # call.reviewer
          /\ call.work # NoWork
          /\ call.reviewer \notin DOMAIN call.work.reviewers
          /\ DOMAIN store[CallKey(call)].reviewers
               = DOMAIN call.work.reviewers \cup {call.reviewer}
    /\ \A r \in Names, u \in UnitIds : r \notin ReviewedBy(store, r, u)

\* C7 witness: a run has given the reviewer an entry in a second record of the
\* unit.
C7_Witness ==
    /\ Answered("add_reviewer")
    /\ Cardinality(ReviewedBy(store, call.reviewer, call.unit_id)) = 2

(***************************************************************************)
(* Properties of the longer runs (SpecLong).                               *)
(***************************************************************************)
\* C15: after submit_student_work(student, unit, answers) the record stored
\* for the key has the answers as its submission and no reviewers, whatever
\* record the key had before.
C15_SubmitReplacesRecord ==
    Answered("submit_student_work") =>
        store[CallKey(call)] = [submission |-> call.answers, reviewers |-> EmptyDict]

\* C15 witness: the submission replaced a record with other answers and with
\* a reviewer whose review was final.
C15_Witness ==
    /\ Answered("submit_student_work")
    /\ call.replaced # NoWork
    /\ call.replaced.submission # call.answers
    /\ \E r \in DOMAIN call.replaced.reviewers :
          /\ call.replaced.reviewers[r].is_draft = FALSE
          /\ call.replaced.reviewers[r].review = "good"

\* C16: the list get_reviewer_reviews returns is in non-decreasing order of
\* date_added, in whatever order the add_reviewer calls were made and the
\* records are scanned.
C16_ReviewsSortedByDate ==
    Answered("get_reviewer_reviews") =>
        \A i, j \in 1..Len(call.result) :
            i < j => call.result[i].date_added <= call.result[j].date_added

\* C16 witness: the list has the views of two records whose entries were
\* added at different times, the record of the later entry being the student
\* a's (which a scan in key order meets first).
C16_Witness ==
    /\ Answered("get_reviewer_reviews")
    /\ Len(call.result) = 2
    /\ call.result[1].date_added < call.result[2].date_added
    /\ call.result[2].student = <<"a">>

\* The view of the work of student s that the reviewer is to get.
ViewOf(st, s, reviewer, unit_id) ==
    LET work == st[KeyString(s, unit_id)]
    IN  [student    |-> s,
         submission |-> work.submission,
         review     |-> work.reviewers[reviewer].review,
         is_draft   |-> work.reviewers[reviewer].is_draft,
         date_added |-> work.reviewers[reviewer].date_added]

\* C17: get_reviewer_reviews(reviewer, unit) returns one view for each record
\* of the unit that has an entry for the reviewer and no other view; the view
\* has the record's student and submission and the entry's review, is_draft
\* and date_added.
C17_OneViewPerAssignedRecord ==
    Answered("get_reviewer_reviews") =>
        LET assigned == ReviewedBy(store, call.reviewer, call.unit_id)
        IN  /\ Len(call.result) = Cardinality(assigned)
            /\ \A i \in 1..Len(call.result) : call.result[i].student \in assigned
            /\ \A s \in assigned : \E i \in 1..Len(call.result) :
                  call.result[i] = ViewOf(store, s, call.reviewer, call.unit_id)

\* C17 witness: one view was returned while the store holds a record of
\* another unit with an entry for the reviewer and a record of the same unit
\* without one.
C17_Witness ==
    /\ Answered("get_reviewer_reviews")
    /\ Len(call.result) = 1
    /\ \E u \in UnitIds \ {call.unit_id} : ReviewedBy(store, call.reviewer, u) # {}
    /\ \E s \in Names :
          /\ KeyString(s, call.unit_id) \in DOMAIN store
          /\ s \notin ReviewedBy(store, call.reviewer, call.unit_id)

(***************************************************************************)
(* Properties of get_review_progress on its own (SpecProgress).            *)
(***************************************************************************)
\* The number of the reviews that have is_draft false.
NumberNotDraft(reviews) ==
    Cardinality({i \in DOMAIN reviews :
                    "is_draft" \in DOMAIN reviews[i] /\ reviews[i].is_draft = FALSE})

\* C18: get_review_progress returns COMPLETED when the number of reviews with
\* is_draft false is at least review_min_count, otherwise IN_PROGRESS when
\* that number is above 0, otherwise NOT_STARTED.
C18_ProgressDerivation ==
    Answered("get_review_progress") =>
        LET n == NumberNotDraft(call.reviews)
        IN  call.result =
                IF n >= call.review_min_count THEN ProgressTracker.COMPLETED_STATE
                ELSE IF n > 0 THEN ProgressTracker.IN_PROGRESS_STATE
                ELSE ProgressTracker.NOT_STARTED_STATE

\* C18 witness: IN_PROGRESS was returned for a list of one final review, one
\* draft and one review without is_draft, two being asked for.
C18_Witness ==
    /\ Answered("get_review_progress")
    /\ call.result = ProgressTracker.IN_PROGRESS_STATE
    /\ call.review_min_count = 2
    /\ Len(call.reviews) = 3
    /\ \E i \in DOMAIN call.reviews : "is_draft" \notin DOMAIN call.reviews[i]
    /\ \E i \in DOMAIN call.reviews :
          "is_draft" \in DOMAIN call.reviews[i] /\ call.reviews[i].is_draft

(***************************************************************************)
(* Properties of the reviewer's progress in the longer runs (SpecLong).    *)
(***************************************************************************)
\* A submit_review has made final (is_draft false) an entry that was a draft.
DraftMadeFinal ==
    /\ Answered("submit_review")
    /\ call.work.reviewers[call.reviewer].is_draft = TRUE
    /\ call.is_draft = FALSE

\* C19: a submit_review that makes a draft entry final does not lower the
\* reviewer's count of completed reviews and, for any review_min_count, does
\* not take the reviewer's progress from COMPLETED to another state.
C19_ProgressMonotone ==
    DraftMadeFinal =>
        \A before \in ReviewLists(StoreBefore, call.reviewer, call.unit_id),
           after \in ReviewLists(store, call.reviewer, call.unit_id) :
            /\ CountCompletedReviews(after) >= CountCompletedReviews(before)
            /\ \A n \in MinCounts :
                  GetReviewProgress(before, n, ProgressTracker)
                        = ProgressTracker.COMPLETED_STATE
                  => GetReviewProgress(after, n, ProgressTracker)
                        = ProgressTracker.COMPLETED_STATE

\* C19 witness: the reviewer had one completed review and a draft, so that
\* the progress for one required review was COMPLETED, and the draft was made
\* final.
C19_Witness ==
    /\ DraftMadeFinal
    /\ \E before \in ReviewLists(StoreBefore, call.reviewer, call.unit_id) :
          /\ CountCompletedReviews(before) = 1
          /\ GetReviewProgress(before, 1, ProgressTracker)
                = ProgressTracker.COMPLETED_STATE
    /\ \E after \in ReviewLists(store, call.reviewer, call.unit_id) :
          CountCompletedReviews(after) = 2

(***************************************************************************)
(* Properties of the assignment runs of reviewers without work of their    *)
(* own (SpecSpread).                                                       *)
(***************************************************************************)
\* The record of student s has the reviewers rs and no others.
HasReviewers(s, unit_id, rs) ==
    /\ KeyString(s, unit_id) \in DOMAIN store
    /\ DOMAIN store[KeyString(s, unit_id)].reviewers = rs

\* C21: when the record of one student has the one reviewer R (given by an
\* assignment run) and the record of another student of the unit has none,
\* get_new_submission_for_review for a reviewer other than R does not return
\* the first student unless the second's record is not eligible for that
\* reviewer.
C21_LoadSpreading ==
    Answered("get_new_submission_for_review") =>
        \A a1, a2 \in SpreadStudents : \A r \in SpreadReviewers :
            (/\ a1 # a2
             /\ r # call.reviewer
             /\ HasReviewers(a1, call.unit_id, {r})
             /\ HasReviewers(a2, call.unit_id, {})
             /\ call.result = a1)
            => ~ Eligible(store, a2, call.reviewer, call.unit_id)

\* C21 witness: the student b has the reviewer c, the student a has none,
\* both records are eligible for the reviewer d, and the call for d returned
\* a.
C21_Witness ==
    /\ Answered("get_new_submission_for_review")
    /\ call.reviewer = <<"d">>
    /\ HasReviewers(<<"b">>, call.unit_id, {<<"c">>})
    /\ HasReviewers(<<"a">>, call.unit_id, {})
    /\ call.result = <<"a">>

(***************************************************************************)
(* Properties of the requests that share users.get_current_user            *)
(* (SpecDelegate).                                                         *)
(***************************************************************************)
\* Request i is inside a delegate_to call.
Delegating(i) == reqs[i].pc \in {"saved", "asked", "running", "finally"}

\* C24: a request that asks users.get_current_user who its user is while
\* other requests generate pages through delegate_to obtains its own user,
\* never the placeholder.
C24_OwnUserObtained ==
    \A i \in ReqIds :
        (reqs[i].pc = "done" /\ reqs[i].op = "get_enrolled_student")
        => reqs[i].user = reqs[i].env_user

\* C27: when no delegate_to call is running, users.get_current_user is the
\* function of the users module, however the calls that have ended were
\* interleaved and whether handler.get() returned or raised.
C27_AccessorRestored ==
    (\A i \in ReqIds : ~ Delegating(i)) => get_current_user = OriginalAccessor

====
